---- MODULE Spec2Model ----
(***************************************************************************)
(* Budget tracker (budget_tracker_app.py): four SQLite tables (expenses,   *)
(* income, budgets, financial_goals), the menu handlers that change them   *)
(* and the budget_summary report.                                          *)
(*                                                                         *)
(* Amounts are REAL columns in the program; here they are whole numbers    *)
(* (every amount of the seed data and of the bounded inputs is a whole     *)
(* number, on which float addition and comparison are exact).             *)
(* A table is the sequence of its rows in rowid order.  SQL NULL / Python  *)
(* None is the empty sequence <<>>, a non-NULL scalar v is <<v>>.          *)
(***************************************************************************)
EXTENDS Integers, Sequences, FiniteSets, TLC

VARIABLES expenses, income, budgets, financial_goals, db_exists, pc, out, nops, last_op

tables == <<expenses, income, budgets, financial_goals>>
vars == <<expenses, income, budgets, financial_goals, db_exists, pc, out, nops, last_op>>

\* Number of mutating operations (insert / update / delete statements run by
\* a handler or applied to the store) explored in one behaviour.
MaxOps == 2

\* Number of statements applied to one store content (SpecStore starts from
\* every small store content, so one statement reaches every transition).
MaxStoreOps == 1

(***************************************************************************)
(* Inputs of the bounded user.                                             *)
(***************************************************************************)
\* Texts typed at get_category in add_expense / add_income.
ExpenseCategoryInputs == {"rent", " GROCERIES "}
IncomeCategoryInputs == {"bonus", "Salary"}
\* Texts typed at get_financial_goal.
GoalInputs == {"vacation", "boat"}
\* Texts typed at the selection prompts (validate_*_input).
CategorySelectInputs == {"groceries", "UTILITIES", "rent", "salary", "bonus", "b2b"}
GoalSelectInputs == {"vacation", "New laptop", "boat", "yacht"}
\* Values returned by get_amount.
AmountInputs == {10, 3000}
GoalAmountInputs == {10, 3000}
\* Dates returned by get_date, as <<year, month, day>>.
DateInputs == {<<2025, 1, 5>>}
\* Texts typed at a menu prompt.
MenuInputs == {"1", "2", "3", "4", "5", "6", "7", "x"}

(***************************************************************************)
(* Text conversions.                                                       *)
(***************************************************************************)
\* str.strip() on the texts the bounded user types.
strip(s) ==
  CASE s = " GROCERIES " -> "GROCERIES"
    [] OTHER -> s

\* str.capitalize(): first character upper case, the rest lower case.
capitalize(s) ==
  CASE s = "rent" -> "Rent"
    [] s = "GROCERIES" -> "Groceries"
    [] s = "groceries" -> "Groceries"
    [] s = "UTILITIES" -> "Utilities"
    [] s = "bonus" -> "Bonus"
    [] s = "salary" -> "Salary"
    [] s = "Salary" -> "Salary"
    [] s = "vacation" -> "Vacation"
    [] s = "boat" -> "Boat"
    [] s = "yacht" -> "Yacht"
    [] s = "New laptop" -> "New laptop"
    [] s = "b2b" -> "B2b"
    [] OTHER -> s

Pad(n, width) ==
  IF width = 4
    THEN (IF n < 10 THEN "000" ELSE IF n < 100 THEN "00" ELSE IF n < 1000 THEN "0" ELSE "")
         \o ToString(n)
    ELSE (IF n < 10 THEN "0" ELSE "") \o ToString(n)

\* datetime.date.isoformat(): YYYY-MM-DD.
isoformat(d) == Pad(d[1], 4) \o "-" \o Pad(d[2], 2) \o "-" \o Pad(d[3], 2)

(***************************************************************************)
(* SQL statements on a table.                                              *)
(***************************************************************************)
RECURSIVE MaxId(_)
MaxId(table) ==
  IF table = <<>> THEN 0
  ELSE LET m == MaxId(Tail(table))
       IN IF Head(table).id > m THEN Head(table).id ELSE m

\* INSERT INTO t (...) VALUES (...): id INTEGER PRIMARY KEY gets the largest
\* rowid of the table plus one.
Insert(table, fields) == Append(table, [id |-> MaxId(table) + 1] @@ fields)

\* SELECT ... FROM t WHERE col = val (rows in rowid order).
SelectWhere(table, col, val) == SelectSeq(table, LAMBDA r : r[col] = val)

\* cursor.fetchone(): the first row of the result, None when there is none.
fetchone(rows) == IF rows = <<>> THEN <<>> ELSE <<Head(rows)>>

UpdateWhere_all(table, col, val, setcol, new) ==
  [i \in DOMAIN table |-> [table[i] EXCEPT ![setcol] = new]]

\* UPDATE t SET setcol = new WHERE col = val.
UpdateWhere(table, col, val, setcol, new) ==
  [i \in DOMAIN table |->
     IF table[i][col] = val THEN [table[i] EXCEPT ![setcol] = new] ELSE table[i]]

\* DELETE FROM t WHERE col = val.
DeleteWhere(table, col, val) == SelectSeq(table, LAMBDA r : r[col] # val)

RECURSIVE Total(_, _)
Total(table, col) ==
  IF table = <<>> THEN 0 ELSE Head(table)[col] + Total(Tail(table), col)

SelectSum_first(table, col) == IF table = <<>> THEN <<>> ELSE <<Head(table)[col]>>

\* SELECT SUM(col) FROM t: NULL when the table has no row.
SelectSum(table, col) == IF table = <<>> THEN <<>> ELSE <<Total(table, col)>>

\* Binary (BINARY collation) order of the texts a category can be.
TextOrder ==
  <<"Bonus", "Dining", "Entertainment", "Freelancing", "Gifts", "Groceries",
    "Investments", "Other", "Rent", "Salary", "Transport", "Utilities">>

\* SELECT DISTINCT col FROM t.
SelectDistinct(table, col) == {table[i][col] : i \in DOMAIN table}

\* SELECT category, SUM(amount) FROM t GROUP BY category: one row per
\* category, in the order of the category text.
GroupByCategory(table) ==
  LET present == SelectSeq(TextOrder, LAMBDA c : c \in SelectDistinct(table, "category"))
  IN [k \in DOMAIN present |->
        <<present[k], Total(SelectWhere(table, "category", present[k]), "amount")>>]

(***************************************************************************)
(* create_database: the seed rows.                                         *)
(***************************************************************************)
SeedExpenses ==
  << [id |-> 1, category |-> "Groceries", amount |-> 50, due_date |-> "2024-12-01"],
     [id |-> 2, category |-> "Utilities", amount |-> 100, due_date |-> "2024-12-02"],
     [id |-> 3, category |-> "Transport", amount |-> 20, due_date |-> "2024-12-03"],
     [id |-> 4, category |-> "Dining", amount |-> 30, due_date |-> "2024-12-04"],
     [id |-> 5, category |-> "Entertainment", amount |-> 40, due_date |-> "2024-12-05"] >>

SeedIncome ==
  << [id |-> 1, category |-> "Salary", amount |-> 2000, pay_date |-> "2024-12-01"],
     [id |-> 2, category |-> "Freelancing", amount |-> 500, pay_date |-> "2024-12-02"],
     [id |-> 3, category |-> "Investments", amount |-> 300, pay_date |-> "2024-12-03"],
     [id |-> 4, category |-> "Gifts", amount |-> 100, pay_date |-> "2024-12-04"],
     [id |-> 5, category |-> "Other", amount |-> 50, pay_date |-> "2024-12-05"] >>

SeedBudgets_typo ==
  << [id |-> 1, category |-> "Groceries", budget_amount |-> 30],
     [id |-> 2, category |-> "Utilities", budget_amount |-> 150],
     [id |-> 3, category |-> "Transport", budget_amount |-> 100],
     [id |-> 4, category |-> "Dining", budget_amount |-> 200],
     [id |-> 5, category |-> "Entertainment", budget_amount |-> 150] >>

SeedBudgets ==
  << [id |-> 1, category |-> "Groceries", budget_amount |-> 300],
     [id |-> 2, category |-> "Utilities", budget_amount |-> 150],
     [id |-> 3, category |-> "Transport", budget_amount |-> 100],
     [id |-> 4, category |-> "Dining", budget_amount |-> 200],
     [id |-> 5, category |-> "Entertainment", budget_amount |-> 150] >>

SeedGoals ==
  << [id |-> 1, goal |-> "Buy a car", target_amount |-> 20000, saved_amount |-> 5000],
     [id |-> 2, goal |-> "Vacation", target_amount |-> 5000, saved_amount |-> 1500],
     [id |-> 3, goal |-> "Emergency fund", target_amount |-> 10000, saved_amount |-> 3000],
     [id |-> 4, goal |-> "Home renovation", target_amount |-> 15000, saved_amount |-> 4000],
     [id |-> 5, goal |-> "New laptop", target_amount |-> 2000, saved_amount |-> 800] >>

(***************************************************************************)
(* budget_summary.                                                         *)
(***************************************************************************)
\* cursor.fetchone()[0] or 0.0 : None and 0.0 both give 0.0.
or_zero(x) == IF x = <<>> THEN 0 ELSE IF x[1] = 0 THEN 0 ELSE x[1]

budget_status_strict(total_exp, total_budgeted, balance) ==
  IF total_exp < total_budgeted /\ balance > 0
    THEN "within budget"
    ELSE "over budget"

budget_status_nonneg_balance(total_exp, total_budgeted, balance) ==
  IF total_exp <= total_budgeted /\ balance >= 0
    THEN "within budget"
    ELSE "over budget"

budget_status_no_balance(total_exp, total_budgeted, balance) ==
  IF total_exp <= total_budgeted
    THEN "within budget"
    ELSE "over budget"

\* The overall status from the three totals.
budget_status(total_exp, total_budgeted, balance) ==
  IF total_exp <= total_budgeted /\ balance > 0
    THEN "within budget"
    ELSE "over budget"

\* The budget row fetched for one expense category: None or <<budget_amount>>.
budget_of(bud, category) ==
  LET row == fetchone(SelectWhere(bud, "category", category))
  IN IF row = <<>> THEN <<>> ELSE <<row[1].budget_amount>>

classify_at_budget(bud, category, expense_amount) ==
  LET budget_amount == fetchone(SelectWhere(bud, "category", category))
  IN IF budget_amount = <<>> THEN "none"
     ELSE IF expense_amount >= budget_amount[1].budget_amount THEN "over"
     ELSE "ok"

\* One pass of the loop over the expense categories: "none" appends to
\* no_budget_categories, "over" appends to over_budget_categories.
classify(bud, category, expense_amount) ==
  LET budget_amount == budget_of(bud, category)
  IN IF budget_amount = <<>> THEN "none"
     ELSE IF expense_amount > budget_amount[1] THEN "over"
     ELSE "ok"

over_budget_categories(exp, bud) ==
  LET expense_categories == GroupByCategory(exp)
      hit == SelectSeq(expense_categories, LAMBDA r : classify(bud, r[1], r[2]) = "over")
  IN [k \in DOMAIN hit |-> <<hit[k][1], hit[k][2], budget_of(bud, hit[k][1])[1]>>]

no_budget_categories(exp, bud) ==
  LET expense_categories == GroupByCategory(exp)
  IN SelectSeq(expense_categories, LAMBDA r : classify(bud, r[1], r[2]) = "none")

achieved_goals_strict(goals) ==
  LET hit == SelectSeq(goals, LAMBDA r : r.saved_amount > r.target_amount)
  IN [k \in DOMAIN hit |-> hit[k].goal]

\* SELECT goal FROM financial_goals WHERE saved_amount >= target_amount.
achieved_goals(goals) ==
  LET hit == SelectSeq(goals, LAMBDA r : r.saved_amount >= r.target_amount)
  IN [k \in DOMAIN hit |-> hit[k].goal]

\* Everything budget_summary prints, from the four tables.
summary_of(exp, inc, bud, goals) ==
  LET total_inc == or_zero(SelectSum(inc, "amount"))
      total_exp == or_zero(SelectSum(exp, "amount"))
      total_budgeted == or_zero(SelectSum(bud, "budget_amount"))
      balance == total_inc - total_exp
  IN [ total_income |-> total_inc,
       total_expenses |-> total_exp,
       total_budgeted |-> total_budgeted,
       balance |-> balance,
       budget_status |-> budget_status(total_exp, total_budgeted, balance),
       over_budget_categories |-> over_budget_categories(exp, bud),
       no_budget_categories |-> no_budget_categories(exp, bud),
       achieved_goals |-> achieved_goals(goals) ]

(***************************************************************************)
(* What the last step printed: the operation, the category or goal it was  *)
(* given, its message, and the value it showed (<<>> when none).           *)
(***************************************************************************)
Out(op, key, msg, result) == [op |-> op, key |-> key, msg |-> msg, result |-> result]

\* The last handler that ran insert, update or delete statements, with the
\* category or goal and the amounts it was given.
Op(op, key, amounts) == [op |-> op, key |-> key, amounts |-> amounts]

(***************************************************************************)
(* The statements each handler runs once its inputs are read.  Each        *)
(* handler commits once, after its last statement.                         *)
(***************************************************************************)
create_database_recreating ==
  /\ expenses' = SeedExpenses
  /\ income' = SeedIncome
  /\ budgets' = SeedBudgets
  /\ financial_goals' = SeedGoals
  /\ db_exists' = TRUE

\* db_exists = os.path.exists("expense_tracker.db"); CREATE TABLE IF NOT
\* EXISTS keeps the rows of a table that is there.
create_database ==
  /\ IF ~db_exists
       THEN /\ expenses' = SeedExpenses
            /\ income' = SeedIncome
            /\ budgets' = SeedBudgets
            /\ financial_goals' = SeedGoals
       ELSE UNCHANGED tables
  /\ db_exists' = TRUE

insert_expense_unchecked(expense_category, expense_amount, expense_due_date) ==
  /\ expenses' = Insert(expenses, [category |-> expense_category,
                                   amount |-> expense_amount,
                                   due_date |-> isoformat(expense_due_date)])
  /\ out' = Out("insert_expense", expense_category, "Expense added successfully!", <<>>)
  /\ last_op' = Op("insert_expense", expense_category, <<expense_amount>>)
  /\ UNCHANGED <<income, budgets, financial_goals>>

insert_expense(expense_category, expense_amount, expense_due_date) ==
  LET date_str == isoformat(expense_due_date)
  IN /\ IF fetchone(SelectWhere(expenses, "category", expense_category)) # <<>>
          THEN /\ expenses' = expenses
               /\ out' = Out("insert_expense", expense_category, "Category already exists", <<>>)
          ELSE /\ expenses' = Insert(expenses, [category |-> expense_category,
                                                amount |-> expense_amount,
                                                due_date |-> date_str])
               /\ out' = Out("insert_expense", expense_category, "Expense added successfully!", <<>>)
     /\ last_op' = Op("insert_expense", expense_category, <<expense_amount>>)
     /\ UNCHANGED <<income, budgets, financial_goals>>

update_expense_upsert(expense_category, new_amount) ==
  /\ expenses' = IF SelectWhere(expenses, "category", expense_category) = <<>>
                   THEN Insert(expenses, [category |-> expense_category,
                                          amount |-> new_amount,
                                          due_date |-> ""])
                   ELSE UpdateWhere(expenses, "category", expense_category, "amount", new_amount)
  /\ out' = Out("update_expense", expense_category, "Expense updated successfully", <<>>)
  /\ last_op' = Op("update_expense", expense_category, <<new_amount>>)
  /\ UNCHANGED <<income, budgets, financial_goals>>

update_expense_stmt(expense_category, new_amount) ==
  /\ expenses' = UpdateWhere(expenses, "category", expense_category, "amount", new_amount)
  /\ out' = Out("update_expense", expense_category, "Expense updated successfully", <<>>)
  /\ last_op' = Op("update_expense", expense_category, <<new_amount>>)
  /\ UNCHANGED <<income, budgets, financial_goals>>

delete_expense_only(category) ==
  /\ expenses' = DeleteWhere(expenses, "category", category)
  /\ out' = Out("delete_expense", category,
                "Expense and corresponding budget deleted successfully", <<>>)
  /\ last_op' = Op("delete_expense", category, <<>>)
  /\ UNCHANGED <<income, budgets, financial_goals>>

delete_expense_stmt(category) ==
  /\ expenses' = DeleteWhere(expenses, "category", category)
  /\ budgets' = DeleteWhere(budgets, "category", category)
  /\ out' = Out("delete_expense", category,
                "Expense and corresponding budget deleted successfully", <<>>)
  /\ last_op' = Op("delete_expense", category, <<>>)
  /\ UNCHANGED <<income, financial_goals>>

\* total = SUM(amount); if total is None: total = 0.0
total_of(table) ==
  LET total == SelectSum(table, "amount")
  IN IF total = <<>> THEN 0 ELSE total[1]

insert_income_unchecked(income_category, income_amount, income_pay_date) ==
  /\ income' = Insert(income, [category |-> income_category,
                               amount |-> income_amount,
                               pay_date |-> isoformat(income_pay_date)])
  /\ out' = Out("insert_income", income_category, "Income added successfully!", <<>>)
  /\ last_op' = Op("insert_income", income_category, <<income_amount>>)
  /\ UNCHANGED <<expenses, budgets, financial_goals>>

insert_income(income_category, income_amount, income_pay_date) ==
  LET date_str == isoformat(income_pay_date)
  IN /\ IF fetchone(SelectWhere(income, "category", income_category)) # <<>>
          THEN /\ income' = income
               /\ out' = Out("insert_income", income_category, "Category already exists", <<>>)
          ELSE /\ income' = Insert(income, [category |-> income_category,
                                            amount |-> income_amount,
                                            pay_date |-> date_str])
               /\ out' = Out("insert_income", income_category, "Income added successfully!", <<>>)
     /\ last_op' = Op("insert_income", income_category, <<income_amount>>)
     /\ UNCHANGED <<expenses, budgets, financial_goals>>

update_income_all_rows(income_category, new_amount) ==
  /\ income' = UpdateWhere_all(income, "category", income_category, "amount", new_amount)
  /\ out' = Out("update_income", income_category, "Income updated successfully", <<>>)
  /\ last_op' = Op("update_income", income_category, <<new_amount>>)
  /\ UNCHANGED <<expenses, budgets, financial_goals>>

update_income_stmt(income_category, new_amount) ==
  /\ income' = UpdateWhere(income, "category", income_category, "amount", new_amount)
  /\ out' = Out("update_income", income_category, "Income updated successfully", <<>>)
  /\ last_op' = Op("update_income", income_category, <<new_amount>>)
  /\ UNCHANGED <<expenses, budgets, financial_goals>>

delete_income_stmt(income_category) ==
  /\ income' = DeleteWhere(income, "category", income_category)
  /\ out' = Out("delete_income", income_category, "Income deleted successfully", <<>>)
  /\ last_op' = Op("delete_income", income_category, <<>>)
  /\ UNCHANGED <<expenses, budgets, financial_goals>>

set_budget_insert(budget_category, budget_amount) ==
  /\ budgets' = Insert(budgets, [category |-> budget_category,
                                 budget_amount |-> budget_amount])
  /\ out' = Out("set_budget", budget_category, "set successfully!", <<>>)
  /\ last_op' = Op("set_budget", budget_category, <<budget_amount>>)
  /\ UNCHANGED <<expenses, income, financial_goals>>

set_budget_keep(budget_category, budget_amount) ==
  LET existing_budget == fetchone(SelectWhere(budgets, "category", budget_category))
  IN /\ IF existing_budget # <<>>
          THEN /\ budgets' = budgets
               /\ out' = Out("set_budget", budget_category, "updated successfully!", <<>>)
          ELSE /\ budgets' = Insert(budgets, [category |-> budget_category,
                                              budget_amount |-> budget_amount])
               /\ out' = Out("set_budget", budget_category, "set successfully!", <<>>)
     /\ last_op' = Op("set_budget", budget_category, <<budget_amount>>)
     /\ UNCHANGED <<expenses, income, financial_goals>>

set_budget_stmt(budget_category, budget_amount) ==
  LET existing_budget == fetchone(SelectWhere(budgets, "category", budget_category))
  IN /\ IF existing_budget # <<>>
          THEN /\ budgets' = UpdateWhere(budgets, "category", budget_category,
                                         "budget_amount", budget_amount)
               /\ out' = Out("set_budget", budget_category, "updated successfully!", <<>>)
          ELSE /\ budgets' = Insert(budgets, [category |-> budget_category,
                                              budget_amount |-> budget_amount])
               /\ out' = Out("set_budget", budget_category, "set successfully!", <<>>)
     /\ last_op' = Op("set_budget", budget_category, <<budget_amount>>)
     /\ UNCHANGED <<expenses, income, financial_goals>>

set_financial_goal_stmt(financial_goal, target_amount, saved_amount) ==
  /\ financial_goals' = Insert(financial_goals, [goal |-> financial_goal,
                                                 target_amount |-> target_amount,
                                                 saved_amount |-> saved_amount])
  /\ out' = Out("set_financial_goal", financial_goal, "Financial goal set successfully!", <<>>)
  /\ last_op' = Op("set_financial_goal", financial_goal, <<target_amount, saved_amount>>)
  /\ UNCHANGED <<expenses, income, budgets>>

update_financial_goal_first_row(financial_goal, new_saved_amount) ==
  LET result == fetchone(SelectWhere(financial_goals, "goal", financial_goal))
  IN /\ IF result = <<>>
          THEN /\ financial_goals' = financial_goals
               /\ out' = Out("update_financial_goal", financial_goal, "Error", <<>>)
          ELSE /\ financial_goals' = UpdateWhere(financial_goals, "id", result[1].id,
                                                 "saved_amount", new_saved_amount)
               /\ out' = Out("update_financial_goal", financial_goal,
                             "updated successfully!", <<result[1].saved_amount>>)
     /\ last_op' = Op("update_financial_goal", financial_goal, <<new_saved_amount>>)
     /\ UNCHANGED <<expenses, income, budgets>>

\* result[3] of a None result raises TypeError, which the handler catches and
\* prints: nothing is updated and nothing is committed.
update_financial_goal_stmt(financial_goal, new_saved_amount) ==
  LET result == fetchone(SelectWhere(financial_goals, "goal", financial_goal))
  IN /\ IF result = <<>>
          THEN /\ financial_goals' = financial_goals
               /\ out' = Out("update_financial_goal", financial_goal, "Error", <<>>)
          ELSE /\ financial_goals' = UpdateWhere(financial_goals, "goal", financial_goal,
                                                 "saved_amount", new_saved_amount)
               /\ out' = Out("update_financial_goal", financial_goal,
                             "updated successfully!", <<result[1].saved_amount>>)
     /\ last_op' = Op("update_financial_goal", financial_goal, <<new_saved_amount>>)
     /\ UNCHANGED <<expenses, income, budgets>>

delete_financial_goal_stmt(financial_goal) ==
  /\ financial_goals' = DeleteWhere(financial_goals, "goal", financial_goal)
  /\ out' = Out("delete_financial_goal", financial_goal, "deleted successfully!", <<>>)
  /\ last_op' = Op("delete_financial_goal", financial_goal, <<>>)
  /\ UNCHANGED <<expenses, income, budgets>>

budget_summary ==
  /\ out' = Out("budget_summary", "", "Budget Summary",
                <<summary_of(expenses, income, budgets, financial_goals)>>)
  /\ UNCHANGED tables

(***************************************************************************)
(* The input loops.  Each returns <<text>> for an accepted input and <<>>   *)
(* for one that is refused and asked again.                                *)
(***************************************************************************)
\* any(char.isdigit() for char in user_input), on the texts of the model.
has_digit(s) == s \in {"B2b"}

get_category(raw) ==
  LET user_input == capitalize(strip(raw))
  IN IF user_input = "" \/ has_digit(user_input) THEN <<>> ELSE <<user_input>>

get_financial_goal(raw) ==
  LET user_input == capitalize(strip(raw))
  IN IF user_input = "" THEN <<>> ELSE <<user_input>>

validate_category_input_any(table, raw) ==
  LET categories == SelectDistinct(table, "category")
      user_input == capitalize(strip(raw))
  IN IF user_input \in categories \/ categories = {} THEN <<user_input>> ELSE <<>>

validate_category_input(table, raw) ==
  LET categories == SelectDistinct(table, "category")
      user_input == capitalize(strip(raw))
  IN IF user_input \in categories THEN <<user_input>> ELSE <<>>

validate_financial_goal_input(table, raw) ==
  LET goals == SelectDistinct(table, "goal")
      user_input == capitalize(strip(raw))
  IN IF user_input \in goals THEN <<user_input>> ELSE <<>>

(***************************************************************************)
(* The program: pc is the menu being shown, or the handler waiting at its  *)
(* selection prompt.                                                       *)
(***************************************************************************)
Init ==
  /\ expenses = <<>>
  /\ income = <<>>
  /\ budgets = <<>>
  /\ financial_goals = <<>>
  /\ db_exists = FALSE
  /\ pc = "start"
  /\ out = Out("", "", "", <<>>)
  /\ nops = 0
  /\ last_op = Op("", "", <<>>)

\* What a menu printed after reading choice.
Menu(choice, msg) == Out("menu", choice, msg, <<>>)

\* A run of the program: main_menu() calls create_database() and shows the
\* main menu.  A run that has quit can be followed by another run.
main_menu_start ==
  /\ pc \in {"start", "quit"}
  /\ create_database
  /\ pc' = "main_menu"
  /\ out' = Out("create_database", "", "", <<>>)
  /\ UNCHANGED <<nops, last_op>>

main_menu ==
  /\ pc = "main_menu"
  /\ \E choice \in MenuInputs :
       /\ choice # "5"
       /\ pc' = CASE choice = "1" -> "expense_menu"
                  [] choice = "2" -> "income_menu"
                  [] choice = "3" -> "budget_menu"
                  [] choice = "4" -> "financial_goals_menu"
                  [] choice = "6" -> "quit"
                  [] OTHER -> "main_menu"
       /\ out' = Menu(choice,
                      IF choice \in {"1", "2", "3", "4"} THEN ""
                      ELSE IF choice = "6" THEN "Goodbye!"
                      ELSE "Invalid choice. Please try again.")
  /\ UNCHANGED <<tables, db_exists, nops, last_op>>

main_menu_budget_summary ==
  /\ pc = "main_menu"
  /\ budget_summary
  /\ UNCHANGED <<db_exists, pc, nops, last_op>>

\* Choice 7 (back) or a text that is no choice of the menu.
expense_menu ==
  /\ pc = "expense_menu"
  /\ \E choice \in MenuInputs \ {"1", "2", "3", "4", "5", "6"} :
       /\ pc' = IF choice = "7" THEN "main_menu" ELSE "expense_menu"
       /\ out' = Menu(choice, IF choice = "7" THEN "" ELSE "Invalid choice. Please try again.")
  /\ UNCHANGED <<tables, db_exists, nops, last_op>>

add_expense ==
  /\ pc = "expense_menu"
  /\ nops < MaxOps
  /\ \E raw \in ExpenseCategoryInputs, expense_amount \in AmountInputs,
        expense_due_date \in DateInputs :
       /\ get_category(raw) # <<>>
       /\ insert_expense(get_category(raw)[1], expense_amount, expense_due_date)
  /\ nops' = nops + 1
  /\ UNCHANGED <<db_exists, pc>>

view_expenses ==
  /\ pc = "expense_menu"
  /\ out' = Out("view_expenses", "", "Expenses:", expenses)
  /\ UNCHANGED <<tables, db_exists, pc, nops, last_op>>

\* Choices 3, 4 and 5: the handler waits at validate_category_input.
expense_menu_select ==
  /\ pc = "expense_menu"
  /\ \E choice \in {"3", "4", "5"} :
       /\ choice \in {"4", "5"} => nops < MaxOps
       /\ pc' = CASE choice = "3" -> "view_expenses_by_category"
                  [] choice = "4" -> "update_expense"
                  [] choice = "5" -> "delete_expense"
  /\ out' = Out("validate_category_input", "", "Available categories:",
                SelectDistinct(expenses, "category"))
  /\ UNCHANGED <<tables, db_exists, nops, last_op>>

view_expenses_by_category ==
  /\ pc = "view_expenses_by_category"
  /\ \E raw \in CategorySelectInputs :
       LET expense_category == validate_category_input(expenses, raw)
       IN /\ expense_category # <<>>
          /\ out' = Out("view_expenses_by_category", expense_category[1], "Expenses in category",
                        SelectWhere(expenses, "category", expense_category[1]))
  /\ pc' = "expense_menu"
  /\ UNCHANGED <<tables, db_exists, nops, last_op>>

update_expense ==
  /\ pc = "update_expense"
  /\ \E raw \in CategorySelectInputs, new_amount \in AmountInputs :
       LET expense_category == validate_category_input(expenses, raw)
       IN /\ expense_category # <<>>
          /\ update_expense_stmt(expense_category[1], new_amount)
  /\ pc' = "expense_menu"
  /\ nops' = nops + 1
  /\ UNCHANGED db_exists

delete_expense ==
  /\ pc = "delete_expense"
  /\ \E raw \in CategorySelectInputs :
       LET category == validate_category_input(expenses, raw)
       IN /\ category # <<>>
          /\ delete_expense_stmt(category[1])
  /\ pc' = "expense_menu"
  /\ nops' = nops + 1
  /\ UNCHANGED db_exists

total_expenses ==
  /\ pc = "expense_menu"
  /\ out' = Out("total_expenses", "", "Total Expenses:", <<total_of(expenses)>>)
  /\ UNCHANGED <<tables, db_exists, pc, nops, last_op>>

income_menu ==
  /\ pc = "income_menu"
  /\ \E choice \in MenuInputs \ {"1", "2", "3", "4", "5", "6"} :
       /\ pc' = IF choice = "7" THEN "main_menu" ELSE "income_menu"
       /\ out' = Menu(choice, IF choice = "7" THEN "" ELSE "Invalid choice. Please try again.")
  /\ UNCHANGED <<tables, db_exists, nops, last_op>>

add_income ==
  /\ pc = "income_menu"
  /\ nops < MaxOps
  /\ \E raw \in IncomeCategoryInputs, income_amount \in AmountInputs,
        income_pay_date \in DateInputs :
       /\ get_category(raw) # <<>>
       /\ insert_income(get_category(raw)[1], income_amount, income_pay_date)
  /\ nops' = nops + 1
  /\ UNCHANGED <<db_exists, pc>>

view_income ==
  /\ pc = "income_menu"
  /\ out' = Out("view_income", "", "Income:", income)
  /\ UNCHANGED <<tables, db_exists, pc, nops, last_op>>

income_menu_select ==
  /\ pc = "income_menu"
  /\ \E choice \in {"3", "4", "5"} :
       /\ choice \in {"4", "5"} => nops < MaxOps
       /\ pc' = CASE choice = "3" -> "view_income_by_category"
                  [] choice = "4" -> "update_income"
                  [] choice = "5" -> "delete_income"
  /\ out' = Out("validate_category_input", "", "Available categories:",
                SelectDistinct(income, "category"))
  /\ UNCHANGED <<tables, db_exists, nops, last_op>>

view_income_by_category ==
  /\ pc = "view_income_by_category"
  /\ \E raw \in CategorySelectInputs :
       LET income_category == validate_category_input(income, raw)
       IN /\ income_category # <<>>
          /\ out' = Out("view_income_by_category", income_category[1], "Income in category",
                        SelectWhere(income, "category", income_category[1]))
  /\ pc' = "income_menu"
  /\ UNCHANGED <<tables, db_exists, nops, last_op>>

update_income ==
  /\ pc = "update_income"
  /\ \E raw \in CategorySelectInputs, new_amount \in AmountInputs :
       LET income_category == validate_category_input(income, raw)
       IN /\ income_category # <<>>
          /\ update_income_stmt(income_category[1], new_amount)
  /\ pc' = "income_menu"
  /\ nops' = nops + 1
  /\ UNCHANGED db_exists

delete_income ==
  /\ pc = "delete_income"
  /\ \E raw \in CategorySelectInputs :
       LET income_category == validate_category_input(income, raw)
       IN /\ income_category # <<>>
          /\ delete_income_stmt(income_category[1])
  /\ pc' = "income_menu"
  /\ nops' = nops + 1
  /\ UNCHANGED db_exists

total_income ==
  /\ pc = "income_menu"
  /\ out' = Out("total_income", "", "Total Income:", <<total_of(income)>>)
  /\ UNCHANGED <<tables, db_exists, pc, nops, last_op>>

budget_menu_leaving ==
  /\ pc = "budget_menu"
  /\ \E choice \in MenuInputs \ {"1", "2"} :
       /\ pc' = "main_menu"
       /\ out' = Menu(choice, IF choice = "3" THEN "" ELSE "Invalid choice. Please try again.")
  /\ UNCHANGED <<tables, db_exists, nops, last_op>>

\* Choice 3 (back) or a text that is no choice of the menu.
budget_menu ==
  /\ pc = "budget_menu"
  /\ \E choice \in MenuInputs \ {"1", "2"} :
       /\ pc' = IF choice = "3" THEN "main_menu" ELSE "budget_menu"
       /\ out' = Menu(choice, IF choice = "3" THEN "" ELSE "Invalid choice. Please try again.")
  /\ UNCHANGED <<tables, db_exists, nops, last_op>>

budget_menu_select ==
  /\ pc = "budget_menu"
  /\ \E choice \in {"1", "2"} :
       /\ choice = "1" => nops < MaxOps
       /\ pc' = IF choice = "1" THEN "set_budget" ELSE "view_budget"
  /\ out' = Out("validate_category_input", "", "Available categories:",
                SelectDistinct(expenses, "category"))
  /\ UNCHANGED <<tables, db_exists, nops, last_op>>

set_budget_unvalidated ==
  /\ pc = "set_budget"
  /\ \E raw \in CategorySelectInputs, budget_amount \in AmountInputs :
       LET budget_category == get_category(raw)
       IN /\ budget_category # <<>>
          /\ set_budget_stmt(budget_category[1], budget_amount)
  /\ pc' = "budget_menu"
  /\ nops' = nops + 1
  /\ UNCHANGED db_exists

set_budget ==
  /\ pc = "set_budget"
  /\ \E raw \in CategorySelectInputs, budget_amount \in AmountInputs :
       LET budget_category == validate_category_input(expenses, raw)
       IN /\ budget_category # <<>>
          /\ set_budget_stmt(budget_category[1], budget_amount)
  /\ pc' = "budget_menu"
  /\ nops' = nops + 1
  /\ UNCHANGED db_exists

view_budget_creating ==
  /\ pc = "view_budget"
  /\ \E raw \in CategorySelectInputs :
       LET budget_category == validate_category_input(expenses, raw)
       IN /\ budget_category # <<>>
          /\ LET result == fetchone(SelectWhere(budgets, "category", budget_category[1]))
             IN IF result # <<>>
                  THEN /\ out' = Out("view_budget", budget_category[1], "Budget for",
                                     <<result[1].budget_amount>>)
                       /\ budgets' = budgets
                  ELSE /\ out' = Out("view_budget", budget_category[1],
                                     "No budget found for this category.", <<>>)
                       /\ budgets' = Insert(budgets, [category |-> budget_category[1],
                                                      budget_amount |-> 0])
  /\ pc' = "budget_menu"
  /\ UNCHANGED <<expenses, income, financial_goals, db_exists, nops, last_op>>

view_budget ==
  /\ pc = "view_budget"
  /\ \E raw \in CategorySelectInputs :
       LET budget_category == validate_category_input(expenses, raw)
       IN /\ budget_category # <<>>
          /\ LET result == fetchone(SelectWhere(budgets, "category", budget_category[1]))
             IN out' = IF result # <<>>
                         THEN Out("view_budget", budget_category[1], "Budget for",
                                  <<result[1].budget_amount>>)
                         ELSE Out("view_budget", budget_category[1],
                                  "No budget found for this category.", <<>>)
  /\ pc' = "budget_menu"
  /\ UNCHANGED <<tables, db_exists, nops, last_op>>

\* Choice 5 (back) or a text that is no choice of the menu.
financial_goals_menu ==
  /\ pc = "financial_goals_menu"
  /\ \E choice \in MenuInputs \ {"1", "2", "3", "4"} :
       /\ pc' = IF choice = "5" THEN "main_menu" ELSE "financial_goals_menu"
       /\ out' = Menu(choice, IF choice = "5" THEN "" ELSE "Invalid choice. Please try again.")
  /\ UNCHANGED <<tables, db_exists, nops, last_op>>

set_financial_goal ==
  /\ pc = "financial_goals_menu"
  /\ nops < MaxOps
  /\ \E raw \in GoalInputs, target_amount \in GoalAmountInputs,
        saved_amount \in GoalAmountInputs :
       /\ get_financial_goal(raw) # <<>>
       /\ set_financial_goal_stmt(get_financial_goal(raw)[1], target_amount, saved_amount)
  /\ nops' = nops + 1
  /\ UNCHANGED <<db_exists, pc>>

view_financial_goals ==
  /\ pc = "financial_goals_menu"
  /\ out' = Out("view_financial_goals", "", "Financial Goals:", financial_goals)
  /\ UNCHANGED <<tables, db_exists, pc, nops, last_op>>

\* Choices 3 and 4: the handler waits at validate_financial_goal_input.
financial_goals_menu_select ==
  /\ pc = "financial_goals_menu"
  /\ nops < MaxOps
  /\ \E choice \in {"3", "4"} :
       pc' = IF choice = "3" THEN "update_financial_goal" ELSE "delete_financial_goal"
  /\ out' = Out("validate_financial_goal_input", "", "Available categories:",
                SelectDistinct(financial_goals, "goal"))
  /\ UNCHANGED <<tables, db_exists, nops, last_op>>

update_financial_goal ==
  /\ pc = "update_financial_goal"
  /\ \E raw \in GoalSelectInputs, new_saved_amount \in GoalAmountInputs :
       LET financial_goal == validate_financial_goal_input(financial_goals, raw)
       IN /\ financial_goal # <<>>
          /\ update_financial_goal_stmt(financial_goal[1], new_saved_amount)
  /\ pc' = "financial_goals_menu"
  /\ nops' = nops + 1
  /\ UNCHANGED db_exists

delete_financial_goal ==
  /\ pc = "delete_financial_goal"
  /\ \E raw \in GoalSelectInputs :
       LET financial_goal == validate_financial_goal_input(financial_goals, raw)
       IN /\ financial_goal # <<>>
          /\ delete_financial_goal_stmt(financial_goal[1])
  /\ pc' = "financial_goals_menu"
  /\ nops' = nops + 1
  /\ UNCHANGED db_exists

\* The table a handler's selection prompt lists.
ExpenseSelecting ==
  {"view_expenses_by_category", "update_expense", "delete_expense", "set_budget", "view_budget"}
IncomeSelecting == {"view_income_by_category", "update_income", "delete_income"}
GoalSelecting == {"update_financial_goal", "delete_financial_goal"}

\* A text that is not in the list: "Invalid category. Please choose from the
\* list." and the prompt is shown again.
validate_category_input_retry ==
  /\ pc \in ExpenseSelecting \cup IncomeSelecting
  /\ \E raw \in CategorySelectInputs :
       validate_category_input(IF pc \in ExpenseSelecting THEN expenses ELSE income, raw) = <<>>
  /\ out' = Out("validate_category_input", "", "Invalid category. Please choose from the list.", <<>>)
  /\ UNCHANGED <<tables, db_exists, pc, nops, last_op>>

validate_financial_goal_input_retry ==
  /\ pc \in GoalSelecting
  /\ \E raw \in GoalSelectInputs :
       validate_financial_goal_input(financial_goals, raw) = <<>>
  /\ out' = Out("validate_financial_goal_input", "", "Invalid category. Please choose from the list.", <<>>)
  /\ UNCHANGED <<tables, db_exists, pc, nops, last_op>>

Next ==
  \/ main_menu_start
  \/ main_menu
  \/ main_menu_budget_summary
  \/ expense_menu
  \/ add_expense
  \/ view_expenses
  \/ expense_menu_select
  \/ view_expenses_by_category
  \/ update_expense
  \/ delete_expense
  \/ total_expenses
  \/ income_menu
  \/ add_income
  \/ view_income
  \/ income_menu_select
  \/ view_income_by_category
  \/ update_income
  \/ delete_income
  \/ total_income
  \/ budget_menu
  \/ budget_menu_select
  \/ set_budget
  \/ view_budget
  \/ financial_goals_menu
  \/ set_financial_goal
  \/ view_financial_goals
  \/ financial_goals_menu_select
  \/ update_financial_goal
  \/ delete_financial_goal
  \/ validate_category_input_retry
  \/ validate_financial_goal_input_retry

Spec == Init /\ [][Next]_vars

(***************************************************************************)
(* delete_expense statement by statement, with the process ending at any   *)
(* point.  The four tables are the committed content of the database file. *)
(* sqlite3 opens a transaction at the first DELETE of a connection and     *)
(* writes it at connection.commit(): what the connection has executed and  *)
(* not committed (the DELETE statements for last_op.key that pc has        *)
(* passed) is lost when the process ends.                                  *)
(***************************************************************************)
delete_expense_execute_expenses_committed ==
  /\ pc = "delete_expense"
  /\ \E raw \in CategorySelectInputs :
       LET category == validate_category_input(expenses, raw)
       IN /\ category # <<>>
          /\ expenses' = DeleteWhere(expenses, "category", category[1])
          /\ out' = Out("delete_expense", category[1], "", <<>>)
          /\ last_op' = Op("delete_expense", category[1], <<>>)
  /\ pc' = "delete_expense_budgets"
  /\ UNCHANGED <<income, budgets, financial_goals, db_exists, nops>>

\* cursor.execute("DELETE FROM expenses WHERE category = ?"): executed in the
\* connection's transaction, not committed.
delete_expense_execute_expenses ==
  /\ pc = "delete_expense"
  /\ \E raw \in CategorySelectInputs :
       LET category == validate_category_input(expenses, raw)
       IN /\ category # <<>>
          /\ out' = Out("delete_expense", category[1], "", <<>>)
          /\ last_op' = Op("delete_expense", category[1], <<>>)
  /\ pc' = "delete_expense_budgets"
  /\ UNCHANGED <<tables, db_exists, nops>>

\* cursor.execute("DELETE FROM budgets WHERE category = ?"): executed in the
\* same transaction, not committed.
delete_expense_execute_budgets ==
  /\ pc = "delete_expense_budgets"
  /\ pc' = "delete_expense_commit"
  /\ UNCHANGED <<tables, db_exists, out, nops, last_op>>

\* commit_and_close(connection): both DELETE statements are written.
delete_expense_commit_and_close ==
  /\ pc = "delete_expense_commit"
  /\ expenses' = DeleteWhere(expenses, "category", last_op.key)
  /\ budgets' = DeleteWhere(budgets, "category", last_op.key)
  /\ out' = Out("delete_expense", last_op.key,
                "Expense and corresponding budget deleted successfully", <<>>)
  /\ pc' = "expense_menu"
  /\ nops' = nops + 1
  /\ UNCHANGED <<income, financial_goals, db_exists, last_op>>

\* The process ends (killed, power loss) while a menu or a handler is
\* waiting or between two statements: nothing is committed, and the next
\* run starts at main_menu() again.  out.key keeps where it ended.
crash ==
  /\ pc \notin {"start", "quit"}
  /\ pc' = "quit"
  /\ out' = Out("crash", pc, "", <<>>)
  /\ UNCHANGED <<tables, db_exists, nops, last_op>>

NextCrash ==
  \/ main_menu_start
  \/ main_menu
  \/ main_menu_budget_summary
  \/ expense_menu
  \/ add_expense
  \/ view_expenses
  \/ expense_menu_select
  \/ view_expenses_by_category
  \/ update_expense
  \/ delete_expense_execute_expenses
  \/ delete_expense_execute_budgets
  \/ delete_expense_commit_and_close
  \/ total_expenses
  \/ income_menu
  \/ add_income
  \/ view_income
  \/ income_menu_select
  \/ view_income_by_category
  \/ update_income
  \/ delete_income
  \/ total_income
  \/ budget_menu
  \/ budget_menu_select
  \/ set_budget
  \/ view_budget
  \/ financial_goals_menu
  \/ set_financial_goal
  \/ view_financial_goals
  \/ financial_goals_menu_select
  \/ update_financial_goal
  \/ delete_financial_goal
  \/ validate_category_input_retry
  \/ validate_financial_goal_input_retry
  \/ crash

SpecCrash == Init /\ [][NextCrash]_vars

(***************************************************************************)
(* The record store on its own: the handlers' statements applied to small  *)
(* store contents.  Every content is one the program can hold (a category  *)
(* at most once in expenses, in income and in budgets; a budget only for a *)
(* category of expenses; goal texts may repeat).  insert, update and       *)
(* delete take any text as their key; set_budget takes a category of       *)
(* expenses, as its selection prompt does.                                 *)
(***************************************************************************)
StoreExpenseCategories == {"Groceries", "Rent"}
StoreIncomeCategories == {"Salary", "Bonus"}
StoreGoals == {"Vacation", "Boat"}
StoreExpenseAmounts == {0, 10}
StoreBudgetAmounts == {0, 10}
StoreIncomeAmounts == {10, 30}
StoreTargetAmounts == {10}
StoreSavedAmounts == {9, 10, 11}
StoreDate == "2025-01-05"

\* The tables of at most two rows, with rowids 1 and 2.
SmallTables(first, second) ==
  {<<>>} \cup {<<r>> : r \in first}
         \cup {<<r1, r2>> : r1 \in first, r2 \in second}

ExpenseRows(i) ==
  {[id |-> i, category |-> c, amount |-> a, due_date |-> StoreDate] :
     c \in StoreExpenseCategories, a \in StoreExpenseAmounts}
IncomeRows(i) ==
  {[id |-> i, category |-> c, amount |-> a, pay_date |-> StoreDate] :
     c \in {"Salary"}, a \in StoreIncomeAmounts}
BudgetRows(i) ==
  {[id |-> i, category |-> c, budget_amount |-> a] :
     c \in StoreExpenseCategories, a \in StoreBudgetAmounts}
GoalRows(i) ==
  {[id |-> i, goal |-> g, target_amount |-> t, saved_amount |-> t] :
     g \in {"Vacation"}, t \in StoreTargetAmounts}

UniqueKey(table, col) == Cardinality(SelectDistinct(table, col)) = Len(table)

InitStore ==
  /\ expenses \in {t \in SmallTables(ExpenseRows(1), ExpenseRows(2)) : UniqueKey(t, "category")}
  /\ income \in {t \in SmallTables(IncomeRows(1), IncomeRows(2)) : UniqueKey(t, "category")}
  /\ budgets \in {t \in SmallTables(BudgetRows(1), BudgetRows(2)) :
                    /\ UniqueKey(t, "category")
                    /\ SelectDistinct(t, "category") \subseteq SelectDistinct(expenses, "category")}
  /\ financial_goals \in {t \in SmallTables(GoalRows(1), GoalRows(2)) : Len(t) <= 1}
  /\ db_exists = TRUE
  /\ pc = "main_menu"
  /\ out = Out("", "", "", <<>>)
  /\ nops = 0
  /\ last_op = Op("", "", <<>>)

StoreStep == nops < MaxStoreOps /\ nops' = nops + 1 /\ UNCHANGED <<db_exists, pc>>

store_insert_expense ==
  /\ StoreStep
  /\ \E c \in StoreExpenseCategories, a \in StoreExpenseAmounts, d \in DateInputs :
       insert_expense(c, a, d)

store_update_expense ==
  /\ StoreStep
  /\ \E c \in StoreExpenseCategories, a \in StoreExpenseAmounts : update_expense_stmt(c, a)

store_delete_expense ==
  /\ StoreStep
  /\ \E c \in StoreExpenseCategories : delete_expense_stmt(c)

store_insert_income ==
  /\ StoreStep
  /\ \E c \in StoreIncomeCategories, a \in StoreIncomeAmounts, d \in DateInputs :
       insert_income(c, a, d)

store_update_income ==
  /\ StoreStep
  /\ \E c \in StoreIncomeCategories, a \in StoreIncomeAmounts : update_income_stmt(c, a)

store_delete_income ==
  /\ StoreStep
  /\ \E c \in StoreIncomeCategories : delete_income_stmt(c)

store_set_budget ==
  /\ StoreStep
  /\ \E c \in SelectDistinct(expenses, "category"), a \in StoreBudgetAmounts :
       set_budget_stmt(c, a)

store_set_financial_goal ==
  /\ StoreStep
  /\ \E g \in StoreGoals, t \in StoreTargetAmounts, s \in StoreSavedAmounts :
       set_financial_goal_stmt(g, t, s)

store_update_financial_goal ==
  /\ StoreStep
  /\ \E g \in StoreGoals, s \in StoreSavedAmounts : update_financial_goal_stmt(g, s)

store_delete_financial_goal ==
  /\ StoreStep
  /\ \E g \in StoreGoals : delete_financial_goal_stmt(g)

store_budget_summary ==
  /\ budget_summary
  /\ UNCHANGED <<db_exists, pc, nops, last_op>>

store_total_expenses ==
  /\ out' = Out("total_expenses", "", "Total Expenses:", <<total_of(expenses)>>)
  /\ UNCHANGED <<tables, db_exists, pc, nops, last_op>>

store_total_income ==
  /\ out' = Out("total_income", "", "Total Income:", <<total_of(income)>>)
  /\ UNCHANGED <<tables, db_exists, pc, nops, last_op>>

StoreNext ==
  \/ store_insert_expense
  \/ store_update_expense
  \/ store_delete_expense
  \/ store_insert_income
  \/ store_update_income
  \/ store_delete_income
  \/ store_set_budget
  \/ store_set_financial_goal
  \/ store_update_financial_goal
  \/ store_delete_financial_goal
  \/ store_budget_summary
  \/ store_total_expenses
  \/ store_total_income

SpecStore == InitStore /\ [][StoreNext]_vars

(***************************************************************************)
(* The program on a store that earlier runs have brought down to its last  *)
(* rows: either one row in each table (rowid 1, a budget for the one       *)
(* expense), or no row at all after every expense, income and goal was     *)
(* deleted.  create_database has run before, so the file exists.           *)
(***************************************************************************)
LastExpenses == <<[id |-> 1, category |-> "Groceries", amount |-> 10, due_date |-> StoreDate]>>
LastIncome == <<[id |-> 1, category |-> "Salary", amount |-> 30, pay_date |-> StoreDate]>>
LastBudgets == <<[id |-> 1, category |-> "Groceries", budget_amount |-> 10]>>
LastGoals == <<[id |-> 1, goal |-> "Vacation", target_amount |-> 10, saved_amount |-> 10]>>

InitLastRows ==
  /\ \E rows \in {0, 1} :
       /\ expenses = IF rows = 1 THEN LastExpenses ELSE <<>>
       /\ income = IF rows = 1 THEN LastIncome ELSE <<>>
       /\ budgets = IF rows = 1 THEN LastBudgets ELSE <<>>
       /\ financial_goals = IF rows = 1 THEN LastGoals ELSE <<>>
  /\ db_exists = TRUE
  /\ pc = "main_menu"
  /\ out = Out("", "", "", <<>>)
  /\ nops = 0
  /\ last_op = Op("", "", <<>>)

SpecLastRows == InitLastRows /\ [][Next]_vars

(***************************************************************************)
(* Properties.  The sums and row sets below are written on the rows of the *)
(* tables, independently of the statements above.                          *)
(***************************************************************************)
RECURSIVE SumOver(_, _, _)
SumOver(table, col, S) ==
  IF S = {} THEN 0
  ELSE LET i == CHOOSE j \in S : TRUE
       IN table[i][col] + SumOver(table, col, S \ {i})

\* The sum of column col over the rows now in the table (0 with no row).
RowSum(table, col) == SumOver(table, col, DOMAIN table)

\* The rows (positions) of the table whose column col is val.
RowsWith(table, col, val) == {i \in DOMAIN table : table[i][col] = val}

Range(seq) == {seq[i] : i \in DOMAIN seq}

Texts == Range(TextOrder)

Summarised == out.op = "budget_summary"
TheSummary == out.result[1]

\* C1: budget_summary reports "within budget" exactly when total expenses <=
\* total budgeted and total income - total expenses > 0, and "over budget" in
\* every other case, whatever the over-budget and no-budget lists hold.
C1_StatusFromTotals ==
  Summarised =>
    LET te == RowSum(expenses, "amount")
        tb == RowSum(budgets, "budget_amount")
        ti == RowSum(income, "amount")
    IN /\ TheSummary.balance = ti - te
       /\ TheSummary.budget_status =
            IF te <= tb /\ ti - te > 0 THEN "within budget" ELSE "over budget"

\* A summary that reads "within budget" at total expenses = total budgeted
\* while one category is over its budget.
C1_Witness ==
  /\ Summarised
  /\ TheSummary.budget_status = "within budget"
  /\ TheSummary.total_expenses = TheSummary.total_budgeted
  /\ TheSummary.over_budget_categories # <<>>

\* C2: each expense category is classified by its exact text: no Budget row
\* puts (category, spent) in the no-budget list; a Budget row with spent >
\* budget puts (category, spent, budgeted) in the over-budget list; spent <=
\* budget puts it in neither; no category is in both lists or twice in one.
C2_Classification ==
  Summarised =>
    LET over == TheSummary.over_budget_categories
        none == TheSummary.no_budget_categories
        Spent(c) == SumOver(expenses, "amount", RowsWith(expenses, "category", c))
        Spends(c) == RowsWith(expenses, "category", c) # {}
        BudgetRowsOf(c) == RowsWith(budgets, "category", c)
    IN /\ \A k \in DOMAIN over : over[k][1] \in Texts
       /\ \A k \in DOMAIN none : none[k][1] \in Texts
       /\ \A c \in Texts :
            /\ Cardinality({k \in DOMAIN over : over[k][1] = c})
                 + Cardinality({k \in DOMAIN none : none[k][1] = c}) <= 1
            /\ (\E k \in DOMAIN none : none[k][1] = c)
                 <=> (Spends(c) /\ BudgetRowsOf(c) = {})
            /\ (\E k \in DOMAIN none : none[k][1] = c) => <<c, Spent(c)>> \in Range(none)
            /\ (\E k \in DOMAIN over : over[k][1] = c)
                 <=> (/\ Spends(c)
                      /\ \E i \in BudgetRowsOf(c) : Spent(c) > budgets[i].budget_amount)
            /\ (\E k \in DOMAIN over : over[k][1] = c)
                 => \E i \in BudgetRowsOf(c) :
                      <<c, Spent(c), budgets[i].budget_amount>> \in Range(over)

\* A summary with one category over its budget, one without a budget.
C2_Witness ==
  /\ Summarised
  /\ Len(TheSummary.over_budget_categories) = 1
  /\ Len(TheSummary.no_budget_categories) = 1

\* A summary with a category whose spend equals its budget, in neither list.
C2_WitnessAtBudget ==
  /\ Summarised
  /\ TheSummary.over_budget_categories = <<>>
  /\ TheSummary.no_budget_categories = <<>>
  /\ \E i \in DOMAIN expenses : \E j \in DOMAIN budgets :
       /\ budgets[j].category = expenses[i].category
       /\ budgets[j].budget_amount = expenses[i].amount

\* C3: the total of total_expenses (and of total_income), and the three
\* totals of budget_summary, are the sums of the amounts of the rows now in
\* the table, 0 for a table without rows.
C3_TotalsAreRowSums ==
  /\ out.op = "total_expenses" => out.result = <<RowSum(expenses, "amount")>>
  /\ out.op = "total_income" => out.result = <<RowSum(income, "amount")>>
  /\ Summarised =>
       /\ TheSummary.total_expenses = RowSum(expenses, "amount")
       /\ TheSummary.total_income = RowSum(income, "amount")
       /\ TheSummary.total_budgeted = RowSum(budgets, "budget_amount")
  /\ (out.op = "total_expenses" /\ expenses = <<>>) => out.result = <<0>>
  /\ (Summarised /\ budgets = <<>>) => TheSummary.total_budgeted = 0

\* total_expenses after a statement, on a table of two rows.
C3_Witness ==
  /\ out.op = "total_expenses"
  /\ nops >= 1
  /\ Len(expenses) = 2
  /\ out.result = <<20>>

\* total_expenses after the last expense row was deleted.
C3_WitnessEmpty ==
  /\ out.op = "total_expenses"
  /\ last_op.op = "delete_expense"
  /\ expenses = <<>>
  /\ out.result = <<0>>

\* A step in which handler op ran its statements.
Ran(op) == last_op'.op = op /\ nops' = nops + 1

RECURSIVE OtherRows(_, _, _)
\* The rows whose column col is not val, in their order.
OtherRows(table, col, val) ==
  IF table = <<>> THEN <<>>
  ELSE IF Head(table)[col] = val THEN OtherRows(Tail(table), col, val)
  ELSE <<Head(table)>> \o OtherRows(Tail(table), col, val)

\* C4: creating an Expense (resp. Income) whose category is that of an
\* existing Expense (resp. Income) row is refused ("Category already exists")
\* and leaves all four tables as they were.
C4_DuplicateRejected ==
  [][ /\ (Ran("insert_expense") /\ RowsWith(expenses, "category", last_op'.key) # {})
           => (tables' = tables /\ out'.msg = "Category already exists")
      /\ (Ran("insert_income") /\ RowsWith(income, "category", last_op'.key) # {})
           => (tables' = tables /\ out'.msg = "Category already exists") ]_vars

\* add_expense was given the seed category Groceries, with another amount.
C4_Witness ==
  /\ last_op = Op("insert_expense", "Groceries", <<3000>>)
  /\ out.op = "insert_expense"
  /\ out.msg = "Category already exists"
  /\ nops = 1
  /\ expenses = SeedExpenses

\* C5: deleting expense category c removes every Expense row and every
\* Budget row of category c and leaves the Budget rows of other categories
\* as they were; with no Budget row of c the budgets table is unchanged.
C5_DeleteCascades ==
  [][ Ran("delete_expense") =>
        LET c == last_op'.key
        IN /\ RowsWith(expenses', "category", c) = {}
           /\ RowsWith(budgets', "category", c) = {}
           /\ budgets' = OtherRows(budgets, "category", c)
           /\ expenses' = OtherRows(expenses, "category", c)
           /\ RowsWith(budgets, "category", c) = {} => budgets' = budgets ]_vars

\* The seed category Groceries was deleted, with its budget.
C5_Witness ==
  /\ last_op = Op("delete_expense", "Groceries", <<>>)
  /\ out.op = "delete_expense"
  /\ Len(expenses) = 4
  /\ Len(budgets) = 4
  /\ RowsWith(budgets, "category", "Utilities") # {}

\* Rent, added without a budget, was deleted: the five budgets are there.
C5_WitnessNoBudget ==
  /\ last_op = Op("delete_expense", "Rent", <<>>)
  /\ out.op = "delete_expense"
  /\ budgets = SeedBudgets

C7_AchievedGoals ==
  Summarised =>
    LET achieved == TheSummary.achieved_goals
        Reached(g) == {i \in DOMAIN financial_goals :
                         /\ financial_goals[i].goal = g
                         /\ financial_goals[i].saved_amount >= financial_goals[i].target_amount}
    IN /\ \A g \in Range(achieved) \cup SelectDistinct(financial_goals, "goal") :
            Cardinality({k \in DOMAIN achieved : achieved[k] = g}) = Cardinality(Reached(g))
       /\ \A i \in DOMAIN financial_goals :
            /\ financial_goals[i].saved_amount = financial_goals[i].target_amount
                 => financial_goals[i].goal \in Range(achieved)
            /\ (/\ financial_goals[i].saved_amount = financial_goals[i].target_amount - 1
                /\ Reached(financial_goals[i].goal) = {})
                 => financial_goals[i].goal \notin Range(achieved)

\* A summary of two goals: one exactly at its target, listed; one a unit
\* below its target, not listed.
C7_Witness ==
  /\ Summarised
  /\ \E i, j \in DOMAIN financial_goals :
       /\ financial_goals[i].goal # financial_goals[j].goal
       /\ financial_goals[i].saved_amount = financial_goals[i].target_amount
       /\ financial_goals[j].saved_amount = financial_goals[j].target_amount - 1
       /\ TheSummary.achieved_goals = <<financial_goals[i].goal>>

\* C8: on the seed data, with no operation run, budget_summary gives total
\* income 2950, total expenses 240, total budgeted 900, balance 2710, status
\* "within budget", and empty over-budget, no-budget and achieved lists.
C8_SeedSummary ==
  (Summarised /\ nops = 0) =>
    TheSummary = [ total_income |-> 2950,
                   total_expenses |-> 240,
                   total_budgeted |-> 900,
                   balance |-> 2710,
                   budget_status |-> "within budget",
                   over_budget_categories |-> <<>>,
                   no_budget_categories |-> <<>>,
                   achieved_goals |-> <<>> ]

C8_Witness ==
  /\ Summarised
  /\ nops = 0
  /\ expenses = SeedExpenses
  /\ budgets = SeedBudgets

\* The summary shown when set_budget(Groceries, 10) is the one operation run
\* on the seed data.
AfterGroceriesBudget10 ==
  /\ Summarised
  /\ nops = 1
  /\ last_op = Op("set_budget", "Groceries", <<10>>)

\* C9: after the single operation set_budget(Groceries, 10) on the seed data,
\* budget_summary lists exactly one over-budget category, (Groceries, 50, 10),
\* and the overall status is "within budget".
C9_GroceriesOverBudget ==
  AfterGroceriesBudget10 =>
    /\ TheSummary.over_budget_categories = << <<"Groceries", 50, 10>> >>
    /\ TheSummary.budget_status = "within budget"

C9_Witness ==
  /\ AfterGroceriesBudget10
  /\ Len(TheSummary.over_budget_categories) = 1

\* C10 as stated: after the single operation set_budget(Groceries, 10) on the
\* seed data, total expenses is 240 and total budgeted is 860.
C10_Totals860 ==
  AfterGroceriesBudget10 =>
    /\ TheSummary.total_expenses = 240
    /\ TheSummary.total_budgeted = 860

\* C10, amended: after the single operation set_budget(Groceries, 10) on the
\* seed data, total expenses is 240 and total budgeted is 610 (900 - 300 + 10).
C10_Totals610 ==
  AfterGroceriesBudget10 =>
    /\ TheSummary.total_expenses = 240
    /\ TheSummary.total_budgeted = 610

C10_Witness ==
  /\ AfterGroceriesBudget10
  /\ Len(budgets) = 5
  /\ TheSummary.total_budgeted < TheSummary.total_income

\* The summary shown when update_expense(Groceries, 3000) and
\* set_budget(Groceries, 3000) are the two operations run on the seed data:
\* every category has a budget and none spends more than it.
GroceriesAt3000 ==
  /\ Summarised
  /\ nops = 2
  /\ \E i \in DOMAIN expenses :
       expenses[i].category = "Groceries" /\ expenses[i].amount = 3000
  /\ \E j \in DOMAIN budgets :
       budgets[j].category = "Groceries" /\ budgets[j].budget_amount = 3000

\* C11: the overall status and the per-category lists are independent in both
\* directions.  After set_budget(Groceries, 10) on the seed data the
\* over-budget list is not empty and the status is "within budget"; after
\* update_expense(Groceries, 3000) and set_budget(Groceries, 3000) on the seed
\* data the over-budget and no-budget lists are empty and the status is
\* "over budget" (total expenses 3190 exceed total income 2950).
C11_Independent ==
  /\ AfterGroceriesBudget10 =>
       /\ TheSummary.over_budget_categories # <<>>
       /\ TheSummary.budget_status = "within budget"
       /\ \E i \in DOMAIN expenses : \E j \in DOMAIN budgets :
            /\ budgets[j].category = expenses[i].category
            /\ expenses[i].amount > budgets[j].budget_amount
  /\ GroceriesAt3000 =>
       /\ TheSummary.over_budget_categories = <<>>
       /\ TheSummary.no_budget_categories = <<>>
       /\ TheSummary.budget_status = "over budget"
       /\ RowSum(income, "amount") - RowSum(expenses, "amount") <= 0

\* The state of the second direction: no category listed, status "over
\* budget".
C11_Witness ==
  /\ GroceriesAt3000
  /\ TheSummary.budget_status = "over budget"
  /\ TheSummary.over_budget_categories = <<>>
  /\ TheSummary.no_budget_categories = <<>>
  /\ SelectDistinct(budgets, "category") = SelectDistinct(expenses, "category")

\* The state of the first direction: a category listed, status "within
\* budget".
C11_WitnessWithin ==
  /\ AfterGroceriesBudget10
  /\ TheSummary.budget_status = "within budget"
  /\ Len(TheSummary.over_budget_categories) >= 1
  /\ TheSummary.no_budget_categories = <<>>

\* The operations that only show rows or totals.
ViewOps ==
  {"budget_summary", "view_expenses", "view_expenses_by_category", "total_expenses",
   "view_income", "view_income_by_category", "total_income", "view_budget",
   "view_financial_goals"}

\* C12: budget_summary and every view / total operation leave the rows of
\* all four tables as they were.
C12_ViewsDoNotMutate ==
  [][ out'.op \in ViewOps => tables' = tables ]_vars

\* view_budget was asked for Rent, an expense added without a budget: it
\* found no budget, and the five seed budgets are there.
C12_Witness ==
  /\ out.op = "view_budget"
  /\ out.key = "Rent"
  /\ out.msg = "No budget found for this category."
  /\ nops = 1
  /\ Len(expenses) = 6
  /\ budgets = SeedBudgets

\* C13: in every state reached from the seed data by add, update and delete
\* operations, no two Expense rows have the same category and no two Income
\* rows have the same category.
C13_UniqueCategories ==
  /\ \A i, j \in DOMAIN expenses : expenses[i].category = expenses[j].category => i = j
  /\ \A i, j \in DOMAIN income : income[i].category = income[j].category => i = j

\* Bonus was added to the five seed income rows, then add_income was given
\* Salary again and refused it.
C13_Witness ==
  /\ nops = 2
  /\ last_op.op = "insert_income"
  /\ last_op.key = "Salary"
  /\ Len(income) = 6
  /\ RowsWith(income, "category", "Bonus") # {}
  /\ Cardinality(RowsWith(income, "category", "Salary")) = 1

\* C14: set_budget(c, a) on a category with a Budget row sets the
\* budget_amount of that row to a and adds no row; on a category without a
\* Budget row it adds exactly one row (c, a); the Budget rows of other
\* categories stay as they were.  In every state reached from the seed data
\* there is at most one Budget row per category.
C14_SetBudgetUpsert ==
  /\ [](\A i, j \in DOMAIN budgets : budgets[i].category = budgets[j].category => i = j)
  /\ [][ Ran("set_budget") =>
           LET c == last_op'.key
               a == last_op'.amounts[1]
               old == RowsWith(budgets, "category", c)
           IN /\ old # {} =>
                   /\ Len(budgets') = Len(budgets)
                   /\ \A i \in DOMAIN budgets :
                        budgets'[i] = IF i \in old
                                        THEN [id |-> budgets[i].id, category |-> c,
                                              budget_amount |-> a]
                                        ELSE budgets[i]
              /\ old = {} =>
                   /\ Len(budgets') = Len(budgets) + 1
                   /\ \A i \in DOMAIN budgets : budgets'[i] = budgets[i]
                   /\ budgets'[Len(budgets')].category = c
                   /\ budgets'[Len(budgets')].budget_amount = a
              /\ Cardinality(RowsWith(budgets', "category", c)) = 1 ]_vars

\* set_budget(Rent, .) after Rent was added: a sixth Budget row.
C14_Witness ==
  /\ last_op.op = "set_budget"
  /\ last_op.key = "Rent"
  /\ out.op = "set_budget"
  /\ nops = 2
  /\ Len(budgets) = 6
  /\ budgets[6].category = "Rent"

\* set_budget(Groceries, 10) on the seed data: five Budget rows, the first
\* with the new amount.
C14_WitnessReplace ==
  /\ last_op = Op("set_budget", "Groceries", <<10>>)
  /\ out.op = "set_budget"
  /\ nops = 1
  /\ Len(budgets) = 5
  /\ budgets[1] = [id |-> 1, category |-> "Groceries", budget_amount |-> 10]

\* C15 as stated: set_budget on a category that already has a Budget row is
\* not refused and leaves two Budget rows with that category.
C15_DuplicateBudget ==
  [][ (Ran("set_budget") /\ RowsWith(budgets, "category", last_op'.key) # {}) =>
        /\ out'.msg \in {"set successfully!", "updated successfully!"}
        /\ Cardinality(RowsWith(budgets', "category", last_op'.key)) = 2 ]_vars

\* C15, amended: set_budget on a category that already has a Budget row is
\* not refused (it reports "updated successfully!") and produces no duplicate:
\* the number of Budget rows is unchanged and exactly one row has that
\* category, with the new amount.
C15_NoDuplicateBudget ==
  [][ (Ran("set_budget") /\ RowsWith(budgets, "category", last_op'.key) # {}) =>
        /\ out'.msg = "updated successfully!"
        /\ Len(budgets') = Len(budgets)
        /\ \E i \in DOMAIN budgets' :
             /\ RowsWith(budgets', "category", last_op'.key) = {i}
             /\ budgets'[i].budget_amount = last_op'.amounts[1] ]_vars

\* set_budget(Groceries, 3000) on the seed data, where Groceries has a budget
\* of 300.
C15_Witness ==
  /\ last_op = Op("set_budget", "Groceries", <<3000>>)
  /\ out = Out("set_budget", "Groceries", "updated successfully!", <<>>)
  /\ nops = 1
  /\ Len(budgets) = 5

\* C16: set_financial_goal always adds one new row, also when a row with the
\* same goal text exists; update_financial_goal(g, s) sets saved_amount of
\* every row whose goal is g to s and leaves their target_amount unchanged;
\* delete_financial_goal(g) removes every row whose goal is g; rows with
\* another goal text are unchanged.
C16_GoalRowsByText ==
  [][ LET g == last_op'.key
          old == financial_goals
          new == financial_goals'
      IN /\ Ran("set_financial_goal") =>
              /\ Len(new) = Len(old) + 1
              /\ \A i \in DOMAIN old : new[i] = old[i]
              /\ new[Len(new)].goal = g
              /\ new[Len(new)].target_amount = last_op'.amounts[1]
              /\ new[Len(new)].saved_amount = last_op'.amounts[2]
              /\ \A i \in DOMAIN old : new[Len(new)].id # old[i].id
         /\ Ran("update_financial_goal") =>
              /\ Len(new) = Len(old)
              /\ \A i \in DOMAIN old :
                   IF old[i].goal = g
                     THEN new[i] = [id |-> old[i].id, goal |-> g,
                                    target_amount |-> old[i].target_amount,
                                    saved_amount |-> last_op'.amounts[1]]
                     ELSE new[i] = old[i]
         /\ Ran("delete_financial_goal") =>
              /\ RowsWith(new, "goal", g) = {}
              /\ new = OtherRows(old, "goal", g) ]_vars

\* A second Vacation goal was set, then update_financial_goal(Vacation, 10)
\* ran: both Vacation rows have saved_amount 10, the seed row keeps its
\* target of 5000.
C16_Witness ==
  /\ last_op = Op("update_financial_goal", "Vacation", <<10>>)
  /\ nops = 2
  /\ Len(financial_goals) = 6
  /\ RowsWith(financial_goals, "goal", "Vacation") = {2, 6}
  /\ financial_goals[2].saved_amount = 10
  /\ financial_goals[6].saved_amount = 10
  /\ financial_goals[2].target_amount = 5000

\* A second Vacation goal was set, then delete_financial_goal(Vacation) ran:
\* both rows are gone.
C16_WitnessDelete ==
  /\ last_op = Op("delete_financial_goal", "Vacation", <<>>)
  /\ nops = 2
  /\ Len(financial_goals) = 4
  /\ RowsWith(financial_goals, "goal", "Vacation") = {}

\* A step in which the process ends between the two DELETE statements of
\* delete_expense.
CrashBetweenDeletes == pc = "delete_expense_budgets" /\ out'.op = "crash"

\* C17 as stated: the Expense delete and the Budget delete are committed
\* separately, so that a crash between the two leaves the Expense row of the
\* category gone and its Budget row present.
C17_CrashLeavesOrphan ==
  [][ (CrashBetweenDeletes /\ RowsWith(budgets, "category", last_op.key) # {}) =>
        /\ RowsWith(expenses', "category", last_op.key) = {}
        /\ RowsWith(budgets', "category", last_op.key) # {} ]_vars

\* C17, amended: delete_expense runs the Expense delete and the Budget delete
\* in one transaction with one commit.  A crash between the two leaves the
\* committed tables as they were before delete_expense, the Expense row and
\* the Budget row of the category both present; the committed tables change
\* in one step, in which the rows of the category leave both tables.
C17_CrashLeavesBoth ==
  [][ /\ CrashBetweenDeletes =>
           /\ tables' = tables
           /\ RowsWith(expenses', "category", last_op.key) # {}
           /\ RowsWith(budgets', "category", last_op.key) # {}
                 <=> RowsWith(budgets, "category", last_op.key) # {}
      /\ pc = "delete_expense" => tables' = tables
      /\ pc = "delete_expense_budgets" => tables' = tables
      /\ (pc = "delete_expense_commit" /\ pc' = "expense_menu") =>
           /\ expenses' = OtherRows(expenses, "category", last_op.key)
           /\ budgets' = OtherRows(budgets, "category", last_op.key) ]_vars

\* The process ended between the two DELETE statements of
\* delete_expense(Groceries) on the seed data: the Groceries expense and the
\* Groceries budget are both there.
C17_Witness ==
  /\ out = Out("crash", "delete_expense_budgets", "", <<>>)
  /\ pc = "quit"
  /\ last_op = Op("delete_expense", "Groceries", <<>>)
  /\ RowsWith(expenses, "category", "Groceries") = {1}
  /\ RowsWith(budgets, "category", "Groceries") = {1}

\* A step in which a run of the program starts and create_database runs.
Started == pc \in {"start", "quit"} /\ pc' = "main_menu"

\* C18: create_database run with the store file absent yields exactly 5
\* expense, 5 income, 5 budget and 5 goal rows (the seed rows); run when the
\* file exists, at any later start of the program, it leaves the rows of all
\* four tables as they were; the file, once there, stays.
C18_SeedOnlyOnce ==
  [][ /\ (Started /\ ~db_exists) =>
           /\ Len(expenses') = 5 /\ Len(income') = 5
           /\ Len(budgets') = 5 /\ Len(financial_goals') = 5
           /\ tables' = <<SeedExpenses, SeedIncome, SeedBudgets, SeedGoals>>
      /\ (Started /\ db_exists) => tables' = tables
      /\ Started => db_exists'
      /\ db_exists => db_exists' ]_vars

\* The seed expense Groceries was deleted, the program quit and was started
\* again: four expense rows and four budget rows, none of Groceries.
C18_Witness ==
  /\ out.op = "create_database"
  /\ pc = "main_menu"
  /\ last_op = Op("delete_expense", "Groceries", <<>>)
  /\ Len(expenses) = 4
  /\ Len(budgets) = 4
  /\ RowsWith(expenses, "category", "Groceries") = {}

\* The first start: the twenty seed rows.
C18_WitnessFirst ==
  /\ out.op = "create_database"
  /\ nops = 0
  /\ db_exists
  /\ Len(expenses) = 5 /\ Len(income) = 5 /\ Len(budgets) = 5 /\ Len(financial_goals) = 5

MenuPcs == {"main_menu", "expense_menu", "income_menu", "budget_menu", "financial_goals_menu"}

\* The choices a menu lists, and the one that leaves it.
ListedChoices(menu) ==
  CASE menu = "main_menu" -> {"1", "2", "3", "4", "5", "6"}
    [] menu \in {"expense_menu", "income_menu"} -> {"1", "2", "3", "4", "5", "6", "7"}
    [] menu = "budget_menu" -> {"1", "2", "3"}
    [] menu = "financial_goals_menu" -> {"1", "2", "3", "4", "5"}

BackChoice(menu) ==
  CASE menu \in {"expense_menu", "income_menu"} -> "7"
    [] menu = "budget_menu" -> "3"
    [] menu = "financial_goals_menu" -> "5"

\* C19: in the main menu and in each submenu, an input that is not a listed
\* choice changes neither the tables nor the menu, and the menu is shown
\* again after "Invalid choice. Please try again."; the program ends only by
\* choice 6 in the main menu; a submenu returns to the main menu only by its
\* own Back choice, and the main menu is entered from nowhere else.
C19_MenuLoops ==
  [][ /\ (pc \in MenuPcs /\ out'.op = "menu" /\ out'.key \notin ListedChoices(pc)) =>
           /\ pc' = pc
           /\ tables' = tables
           /\ out'.msg = "Invalid choice. Please try again."
      /\ (pc # "quit" /\ pc' = "quit") =>
           /\ pc = "main_menu"
           /\ out' = Menu("6", "Goodbye!")
           /\ tables' = tables
      /\ (pc # "main_menu" /\ pc' = "main_menu") =>
           \/ Started
           \/ /\ pc \in MenuPcs
              /\ out'.op = "menu"
              /\ out'.key = BackChoice(pc)
              /\ tables' = tables ]_vars

\* The budget menu was given 6, the Quit choice of the main menu: it reports
\* an invalid choice and is shown again.
C19_Witness ==
  /\ pc = "budget_menu"
  /\ out = Menu("6", "Invalid choice. Please try again.")
  /\ nops >= 1

\* The program quit from the main menu after an operation.
C19_WitnessQuit ==
  /\ pc = "quit"
  /\ out = Menu("6", "Goodbye!")
  /\ nops >= 1

\* C20: every mutating operation changes only its own table and field.
\* update_expense / update_income set the amount of the rows of the chosen
\* category and keep their id, category and date, and every other row;
\* add_income, update_income and delete_income leave expenses, budgets and
\* goals unchanged; add_expense and update_expense leave income, budgets and
\* goals unchanged; set_budget leaves expenses, income and goals unchanged;
\* delete_expense leaves income and goals unchanged.
C20_OwnTableOnly ==
  [][ LET c == last_op'.key
      IN /\ Ran("update_expense") =>
              /\ Len(expenses') = Len(expenses)
              /\ \A i \in DOMAIN expenses :
                   IF expenses[i].category = c
                     THEN expenses'[i] = [id |-> expenses[i].id, category |-> c,
                                          amount |-> last_op'.amounts[1],
                                          due_date |-> expenses[i].due_date]
                     ELSE expenses'[i] = expenses[i]
         /\ Ran("update_income") =>
              /\ Len(income') = Len(income)
              /\ \A i \in DOMAIN income :
                   IF income[i].category = c
                     THEN income'[i] = [id |-> income[i].id, category |-> c,
                                        amount |-> last_op'.amounts[1],
                                        pay_date |-> income[i].pay_date]
                     ELSE income'[i] = income[i]
         /\ (Ran("insert_income") \/ Ran("update_income") \/ Ran("delete_income")) =>
              /\ expenses' = expenses
              /\ budgets' = budgets
              /\ financial_goals' = financial_goals
         /\ (Ran("insert_expense") \/ Ran("update_expense")) =>
              /\ income' = income
              /\ budgets' = budgets
              /\ financial_goals' = financial_goals
         /\ Ran("set_budget") =>
              /\ expenses' = expenses
              /\ income' = income
              /\ financial_goals' = financial_goals
         /\ Ran("delete_expense") =>
              /\ income' = income
              /\ financial_goals' = financial_goals ]_vars

\* update_income(Salary, 10) on the seed data: the Salary row has amount 10
\* and its id and date, the four other income rows and the three other
\* tables are the seed rows.
C20_Witness ==
  /\ last_op = Op("update_income", "Salary", <<10>>)
  /\ nops = 1
  /\ income[1] = [id |-> 1, category |-> "Salary", amount |-> 10, pay_date |-> "2024-12-01"]
  /\ \A i \in 2..5 : income[i] = SeedIncome[i]
  /\ expenses = SeedExpenses
  /\ budgets = SeedBudgets
  /\ financial_goals = SeedGoals

\* The Budget rows (positions) whose category has an Expense row.
BudgetsOfExpenses ==
  {j \in DOMAIN budgets : RowsWith(expenses, "category", budgets[j].category) # {}}

C21_WitnessSet ==
  /\ last_op.op = "set_budget"
  /\ last_op.key = "Rent"
  /\ RowsWith(budgets, "category", "Rent") # {}
  /\ RowsWith(expenses, "category", "Rent") # {}

\* C22: whenever total income <= total expenses, budget_summary reports
\* "over budget", whatever the budgets are; with the expenses, income and
\* budgets tables all empty the three totals and the balance are 0, the
\* over-budget and no-budget lists are empty and the status is "over budget".
C22_NoSurplusIsOverBudget ==
  Summarised =>
    /\ RowSum(income, "amount") <= RowSum(expenses, "amount")
         => TheSummary.budget_status = "over budget"
    /\ (expenses = <<>> /\ income = <<>> /\ budgets = <<>>) =>
         /\ TheSummary.total_income = 0
         /\ TheSummary.total_expenses = 0
         /\ TheSummary.total_budgeted = 0
         /\ TheSummary.balance = 0
         /\ TheSummary.over_budget_categories = <<>>
         /\ TheSummary.no_budget_categories = <<>>
         /\ TheSummary.budget_status = "over budget"

\* The summary after the last expense was deleted, with its budget, from a
\* store without income: three empty tables, status "over budget".
C22_Witness ==
  /\ Summarised
  /\ last_op.op = "delete_expense"
  /\ expenses = <<>> /\ income = <<>> /\ budgets = <<>>
  /\ TheSummary.budget_status = "over budget"
  /\ TheSummary.over_budget_categories = <<>>
  /\ TheSummary.no_budget_categories = <<>>

\* A summary with income equal to expenses, both positive, and expenses
\* within the total budgeted: "over budget".
C22_WitnessEqual ==
  /\ Summarised
  /\ TheSummary.total_income = TheSummary.total_expenses
  /\ TheSummary.total_expenses > 0
  /\ TheSummary.total_expenses <= TheSummary.total_budgeted
  /\ TheSummary.budget_status = "over budget"

C23_WitnessGoals ==
  /\ pc = "update_financial_goal"
  /\ financial_goals = <<>>
  /\ last_op = Op("delete_financial_goal", "Vacation", <<>>)
  /\ out = Out("validate_financial_goal_input", "",
               "Invalid category. Please choose from the list.", <<>>)

====
